---- MODULE Spec2Model ----
(***************************************************************************)
(* Model of the search capture pipeline of ocular-scraper:                 *)
(*   ZeptoScraper._setup_response_interception.handle_response             *)
(*   ZeptoScraper._wait_for_api_response                                   *)
(*   ZeptoScraper.search_for_keyword                                       *)
(*   ZeptoScraper.extract_data                                             *)
(*   ZeptoDataProcessor.extract_products_from_api_response                 *)
(*   ZeptoDataProcessor.process_extracted_data                             *)
(*   ScraperFactory.register_scraper, ScraperFactory.create_scraper        *)
(*   scrape_platform                                                       *)
(*   utils.retry                                                           *)
(* Coroutines run on one asyncio event loop, so every action below is the  *)
(* code between two consecutive awaits of one coroutine.                   *)
(* Strings that the code parses are sequences of one-character strings.    *)
(***************************************************************************)
EXTENDS Integers, Sequences, FiniteSets, Bags, TLC

VARIABLES
    search_results,     \* self.search_results: key -> latest payload (NoPayload = key absent)
    response_versions,  \* self.response_versions: key -> version (0 = absent or 0)
    api_responses,      \* self.api_responses: key -> list of collected payloads
    current_keyword,    \* self._current_keyword
    inflight,           \* bag of handle_response callbacks suspended in `await response.json()`
    pc,                 \* where the driver coroutine (search_for_keyword) is suspended
    keyword,            \* argument of the running / last search_for_keyword call
    current_version,    \* local of _wait_for_api_response
    polls,              \* loop variable of _wait_for_api_response (sleeps completed)
    i,                  \* loop variable of the scroll loop
    wait_ret,           \* return value of _wait_for_api_response in this search
    ret,                \* value returned by the last search_for_keyword call
    ev,                 \* what handle_response did in the last step (history)
    env,                \* what the network and the caller do in this run (fixed by Init)
    decoded,            \* number of matched responses whose body decoded (history)
    searches,           \* number of search_for_keyword calls started (history)
    triggers,           \* load-more triggers (End key presses) issued in this search (history)
    start_len,          \* len(api_responses[keyword]) when this search started (history)
    start_version,      \* response_versions[keyword] when this search started (history)
    initial,            \* whether lines 432-433 appended an initial page in this search (history)
    extracted,          \* what the last extract_data call returned, with its locals (history)
    raw_data,           \* the record collection the caller hands to process_extracted_data
    calls,              \* the process_extracted_data calls so far: input and output (history)
    scrapers,           \* ScraperFactory._scrapers: platform name -> scraper class
    run,                \* the scrape_platform call: where it is suspended, its locals, its result
    wrapper             \* the call of a function wrapped by retry(): its locals, and what func did

vars == <<search_results, response_versions, api_responses, current_keyword,
          inflight, pc, keyword, current_version, polls, i, wait_ret, ret,
          ev, env, decoded, searches, triggers, start_len, start_version, initial,
          extracted, raw_data, calls, scrapers, run, wrapper>>

ledger == <<search_results, response_versions, api_responses>>

aggregator == <<raw_data, calls>>

session == <<scrapers, run>>

----------------------------------------------------------------------------
\* Bounds of the model
MaxResponses == 2       \* matched responses that decode in one run
MaxInFlight == 2        \* callbacks suspended in response.json() at once
MaxSearches == 2        \* search_for_keyword calls in one run
MaxRetries == 3         \* largest max_retries given to retry()
MaxPayload == 6         \* distinct response bodies
PagingResponses == 6    \* matched responses of a run that only pages through one keyword
MaxPages == 2           \* pages given to one extract_data run
MaxWidgets == 2         \* widgets in all pages of one extract_data run
MaxItems == 2           \* items in all widgets of one extract_data run
WellFormedItems == 3    \* the same, in a run whose payloads are all well formed
PricedItemsPerRun == 1  \* the same, in a run whose items have price or campaign keys
MaxRecords == 3         \* records handed to process_extracted_data
MaxPosition == 2        \* largest position of a record
MaxCalls == 3           \* process_extracted_data calls in one run
MaxKeywords == 2        \* keywords handed to scrape_platform

\* Program constants
max_scrolls == 5
StopAfter == 2
PollsPerSecond == 30
FirstPageTimeout == 5

----------------------------------------------------------------------------
\* Strings
Str_query == <<"q","u","e","r","y","=">>
Str_amp == <<"&">>
Unknown == <<"u","n","k","n","o","w","n">>
None == <<>>
KeyA == <<"a">>
KeyAB == <<"a"," ","b">>
Keywords == {KeyA, KeyAB}
AllKeys == Keywords \cup {Unknown}

NoPayload == 0
Payloads == 1..MaxPayload

BodyOther == <<"x","=","1">>
BodyQueryAB == <<"x","=","1","&","q","u","e","r","y","=","a","%","2","0","b","&","y","=","2">>

\* response.request.post_data: the property raises, or yields None or a string
NoBody == [readable |-> TRUE, data |-> None]

PostDatas ==
    { [readable |-> FALSE, data |-> None],
      [readable |-> TRUE, data |-> BodyOther],
      [readable |-> TRUE, data |-> BodyQueryAB] }

\* response.url as its path segments, response.request.method
UrlSearch == <<"api","v3","search">>
UrlSuggest == <<"api","v3","search","suggest">>
Responses == { <<UrlSearch, "POST">>, <<UrlSearch, "GET">>, <<UrlSuggest, "POST">> }

\* str.find: index of the first occurrence of sub in s, 0 when there is none
RECURSIVE FindFrom(_, _, _)
FindFrom(s, sub, k) ==
    IF k + Len(sub) - 1 > Len(s) THEN 0
    ELSE IF SubSeq(s, k, k + Len(sub) - 1) = sub THEN k
    ELSE FindFrom(s, sub, k + 1)

Find(s, sub) == FindFrom(s, sub, 1)

\* `sub in s`
Contains(s, sub) == Find(s, sub) # 0

\* str.split(sep)
RECURSIVE Split(_, _)
Split(s, sep) ==
    LET k == Find(s, sep)
    IN  IF k = 0 THEN <<s>>
        ELSE <<SubSeq(s, 1, k - 1)>> \o Split(SubSeq(s, k + Len(sep), Len(s)), sep)

\* percent escapes of the characters the bodies use
HexPairs == { <<"2","0">>, <<"2","6">>, <<"3","D">> }
HexChar(p) == CASE p = <<"2","0">> -> " "
                [] p = <<"2","6">> -> "&"
                [] p = <<"3","D">> -> "="

\* urllib.parse.unquote
RECURSIVE Unquote(_)
Unquote(s) ==
    IF s = <<>> THEN <<>>
    ELSE IF s[1] = "%" /\ Len(s) >= 3 /\ <<s[2], s[3]>> \in HexPairs
         THEN <<HexChar(<<s[2], s[3]>>)>> \o Unquote(SubSeq(s, 4, Len(s)))
         ELSE <<s[1]>> \o Unquote(Tail(s))

\* response.url.endswith("/search")
EndsWithSearch(url) == Len(url) > 0 /\ url[Len(url)] = "search"

----------------------------------------------------------------------------
\* handle_response

\* line 97: the search-API predicate
MatchesEither(url, method) == EndsWithSearch(url) \/ method = "POST"

Matches(url, method) == EndsWithSearch(url) /\ method = "POST"

\* The except clause (by line) that catches an exception raised at a site of
\* handle_response; 0 when it would propagate to the caller.
\*   "json"      line 103, inside try 101 (except 133) inside try 94 (except 136)
\*   "post_data" line 110, inside try 109 (except 118) inside the other two
CaughtAtJsonInKeywordTry(site) == 118

CaughtAtJsonUncaught(site) == IF site = "post_data" THEN 118 ELSE 0

CaughtAt(site) == IF site = "post_data" THEN 118 ELSE 133

\* lines 106-119: the key a decoded response is attributed to
ResolveKeyNoUnquote(cur, post) ==
    LET fallback == IF cur = None THEN Unknown ELSE cur
    IN  IF ~post.readable THEN fallback
        ELSE IF post.data # None /\ Contains(post.data, Str_query)
             THEN Split(Split(post.data, Str_query)[2], Str_amp)[1]
             ELSE fallback

ResolveKey(cur, post) ==
    LET fallback == IF cur = None THEN Unknown ELSE cur
    IN  IF ~post.readable THEN fallback
        ELSE IF post.data # None /\ Contains(post.data, Str_query)
             THEN Unquote(Split(Split(post.data, Str_query)[2], Str_amp)[1])
             ELSE fallback

\* lines 122-128
IncrementVersionReset(versions, key) == [versions EXCEPT ![key] = 1]

IncrementVersion(versions, key) == [versions EXCEPT ![key] = @ + 1]

\* line 131
StoreResultDropped(results, key, payload) == results

StoreResult(results, key, payload) == [results EXCEPT ![key] = payload]

\* ev: how the callback of the last step ended ("none" after a driver step), with
\* the url and method of a response that failed the predicate
NoEv == [type |-> "none", url |-> <<>>, method |-> ""]

Event(t) == [type |-> t, url |-> <<>>, method |-> ""]

\* a suspended callback: its response, and the driver's current keyword when the
\* response was delivered (history, kept for the callbacks whose request body is
\* readable and has no query=)
Callback(url, method, post) ==
    [url |-> url, method |-> method, post |-> post,
     issued |-> IF post.readable /\ ~Contains(post.data, Str_query) THEN current_keyword ELSE None]

DriverVars == <<current_keyword, pc, keyword, current_version, polls, i, wait_ret, ret,
                searches, triggers, start_len, start_version, initial>>

\* The bodies a response can carry, up to renaming: one the scraper still holds, or
\* the least one it does not hold.
Held == {search_results[k] : k \in AllKeys} \cup
        UNION {{api_responses[k][n] : n \in 1..Len(api_responses[k])} : k \in AllKeys}

Bodies == LET fresh == Payloads \ Held
          IN  (Held \cap Payloads) \cup {p \in fresh : \A q \in fresh : p <= q}

\* lines 93-97: a response that fails the predicate; the callback returns at once
HandleIgnored ==
    /\ \E r \in Responses :
         /\ ~Matches(r[1], r[2])
         /\ ev' = [type |-> "ignored", url |-> r[1], method |-> r[2]]
    /\ UNCHANGED <<ledger, inflight, decoded, env, extracted, aggregator, session, wrapper, DriverVars>>

\* lines 93-103: a matching response; the callback suspends in `await response.json()`
HandleMatched ==
    /\ decoded + BagCardinality(inflight) < env.responses
    /\ BagCardinality(inflight) < env.inflight
    /\ \E r \in Responses, post \in env.posts :
         /\ Matches(r[1], r[2])
         /\ inflight' = inflight (+) SetToBag({Callback(r[1], r[2], post)})
    /\ ev' = NoEv
    /\ UNCHANGED <<ledger, decoded, env, extracted, aggregator, session, wrapper, DriverVars>>

\* lines 121-132, reached from line 103 or from an except clause that resumes there
Capture(c, payload, t) ==
    LET key == ResolveKey(current_keyword, c.post)
    IN  /\ response_versions' = IncrementVersion(response_versions, key)
        /\ search_results' = StoreResult(search_results, key, payload)
        /\ ev' = Event(t)

\* lines 103-132: response.json() resolves with the decoded body
DecodeOk(c) ==
    /\ BagIn(c, inflight)
    /\ inflight' = inflight (-) SetToBag({c})
    /\ decoded' = decoded + 1
    /\ \E payload \in Bodies :
         IF c.post.readable \/ CaughtAt("post_data") = 118
         THEN Capture(c, payload, "stored")
         ELSE /\ ev' = Event(IF CaughtAt("post_data") = 0 THEN "raised" ELSE "dropped")
              /\ UNCHANGED <<response_versions, search_results>>
    /\ UNCHANGED <<api_responses, env, extracted, aggregator, session, wrapper, DriverVars>>

\* lines 103, 133-134: response.json() raises
DecodeFail(c) ==
    /\ BagIn(c, inflight)
    /\ inflight' = inflight (-) SetToBag({c})
    /\ IF CaughtAt("json") = 118
       THEN Capture(c, NoPayload, "dropped")
       ELSE /\ ev' = Event(IF CaughtAt("json") = 0 THEN "raised" ELSE "dropped")
            /\ UNCHANGED <<response_versions, search_results>>
    /\ UNCHANGED <<api_responses, decoded, env, extracted, aggregator, session, wrapper, DriverVars>>


----------------------------------------------------------------------------
\* _wait_for_api_response and search_for_keyword

NoRet == [kind |-> "none", pages |-> <<>>]

\* line 156: range(timeout * 30)
TotalPolls == FirstPageTimeout * PollsPerSecond

\* line 158
WaitSatisfied(results, versions, k, cv) == results[k] # NoPayload /\ versions[k] >= cv

\* `x in list`
InList(x, list) == \E n \in 1..Len(list) : list[n] = x

\* line 445: a payload is stored for the keyword and is not yet collected
IsNew(results, collected, k) == results[k] # NoPayload /\ ~InList(results[k], collected[k])

\* lines 438, 448-450: the loop goes on to iteration n + 1
LoopContinuesOffByOne(n, new) == n + 1 <= max_scrolls /\ (new \/ n < StopAfter)

LoopContinuesNoBreak(n, new) == n + 1 < max_scrolls

LoopContinuesStrict(n, new) == n + 1 < max_scrolls /\ (new \/ n <= StopAfter)

LoopContinues(n, new) == n + 1 < max_scrolls /\ (new \/ n < StopAfter)

\* the driver's return: lines 453-456 (kind "list") or 458-460 (kind "dict", the value {})
Return(kind, pages) ==
    /\ pc' = "idle"
    /\ ret' = [kind |-> kind, pages |-> pages]
    /\ polls' = 0
    /\ i' = 0
    /\ current_version' = 0

\* lines 353-373: the call, up to the first await of the UI actions
StartSearch(k) ==
    /\ pc = "idle"
    /\ searches < env.searches
    /\ k \in env.keywords
    /\ searches' = searches + 1
    /\ current_keyword' = k
    /\ keyword' = k
    /\ pc' = "ui"
    /\ wait_ret' = "none"
    /\ ret' = NoRet
    /\ triggers' = 0
    /\ start_len' = Len(api_responses[k])
    /\ start_version' = response_versions[k]
    /\ initial' = FALSE
    /\ ev' = NoEv
    /\ UNCHANGED <<ledger, inflight, decoded, env, extracted, aggregator, session, wrapper,
                   current_version, polls, i>>

\* lines 424-440 after _wait_for_api_response returned r: the initial page is
\* collected and the first End key press is issued
AfterWait(r) ==
    LET has == search_results[keyword] # NoPayload
    IN  /\ wait_ret' = r
        /\ initial' = has
        /\ api_responses' = IF has
                            THEN [api_responses EXCEPT ![keyword] = Append(@, search_results[keyword])]
                            ELSE api_responses
        /\ pc' = "scroll"
        /\ i' = 0
        /\ polls' = 0
        /\ triggers' = triggers + 1
        /\ UNCHANGED <<search_results, response_versions>>

\* lines 357-422, 143-161: the UI actions (357-418) and the network-idle wait (421)
\* complete; _wait_for_api_response starts and makes its first check
UiDone ==
    /\ pc = "ui"
    /\ current_version' = response_versions[keyword]
    /\ IF WaitSatisfied(search_results, response_versions, keyword, response_versions[keyword])
       THEN AfterWait("true")
       ELSE /\ pc' = "poll"
            /\ polls' = 0
            /\ UNCHANGED <<ledger, i, wait_ret, triggers, initial>>
    /\ ev' = NoEv
    /\ UNCHANGED <<inflight, decoded, env, extracted, aggregator, session, wrapper,
                   current_keyword, keyword, ret, searches,
                   start_len, start_version>>

\* lines 383-421, 458-460: a UI action or the network-idle wait raises
UiFail ==
    /\ pc = "ui"
    /\ Return("dict", <<>>)
    /\ ev' = NoEv
    /\ UNCHANGED <<ledger, inflight, decoded, env, extracted, aggregator, session, wrapper,
                   current_keyword, keyword,
                   wait_ret, searches, triggers, start_len, start_version, initial>>

\* lines 156-164: one sleep of the polling loop ends; the next check, or the timeout
PollWake ==
    /\ pc = "poll"
    /\ IF polls + 1 < TotalPolls
       THEN IF WaitSatisfied(search_results, response_versions, keyword, current_version)
            THEN AfterWait("true")
            ELSE /\ polls' = polls + 1
                 /\ UNCHANGED <<ledger, pc, i, wait_ret, triggers, initial>>
       ELSE AfterWait("false")
    /\ ev' = NoEv
    /\ UNCHANGED <<inflight, decoded, env, extracted, aggregator, session, wrapper,
                   current_keyword, keyword, current_version,
                   ret, searches, start_len, start_version>>

\* lines 440-456: the End key press (440), the network-idle wait (441) and the
\* sleep (442) complete; the ledger is sampled, then the loop issues the next key
\* press or the call returns the collected list
ScrollDone ==
    /\ pc = "scroll"
    /\ LET new == IsNew(search_results, api_responses, keyword)
           collected == IF new
                        THEN [api_responses EXCEPT ![keyword] = Append(@, search_results[keyword])]
                        ELSE api_responses
       IN  /\ api_responses' = collected
           /\ IF LoopContinues(i, new)
              THEN /\ i' = i + 1
                   /\ triggers' = triggers + 1
                   /\ UNCHANGED <<pc, ret, polls, current_version>>
              ELSE /\ Return("list", collected[keyword])
                   /\ UNCHANGED triggers
    /\ ev' = NoEv
    /\ UNCHANGED <<search_results, response_versions, inflight, decoded, env, extracted, aggregator, session, wrapper,
                   current_keyword, keyword, wait_ret, searches, start_len, start_version, initial>>

\* lines 440-441, 458-460: the key press or the network-idle wait raises
ScrollFail ==
    /\ pc = "scroll"
    /\ Return("dict", <<>>)
    /\ ev' = NoEv
    /\ UNCHANGED <<ledger, inflight, decoded, env, extracted, aggregator, session, wrapper,
                   current_keyword, keyword,
                   wait_ret, searches, triggers, start_len, start_version, initial>>

----------------------------------------------------------------------------
\* extract_data

\* widget ids and names, as their leading token and the rest
Str_PRODUCT_GRID == <<"PRODUCT_GRID">>
WidgetGrid == <<"PRODUCT_GRID", "_V2">>
WidgetBanner == <<"BANNER", "_V2">>

ProductIds == {"P1", "P2"}

\* a key of a JSON object: absent, or present with a value
Absent == <<>>
Some(v) == <<v>>

\* `key in d`
Has(field) == field # Absent

\* d.get(key, default)
Get(field, default) == IF Has(field) THEN field[1] ELSE default

\* an entry of `items` without price or campaign keys
Item(valid, has_id, id) ==
    [valid |-> valid, has_id |-> has_id, id |-> id, mrp |-> Absent,
     discountedSellingPrice |-> Absent, campaignType |-> Absent, campaignId |-> Absent,
     pricingCampaigns |-> Absent]

\* an entry of `items`: a value that is not an object (item.get raises), or an
\* object whose product has no id key, an empty id, or an id
Items == {Item(FALSE, FALSE, ""), Item(TRUE, FALSE, "")} \cup
         {Item(TRUE, TRUE, x) : x \in ProductIds \cup {""}}

\* amounts in minor units (paise): none, under one rupee, one rupee, rupees and paise
MinorUnits == {0, 5, 100, 12345}

\* the mrp or discountedSellingPrice key of an item
Amounts == {Absent} \cup {Some(v) : v \in MinorUnits}

\* objects with price keys, and objects with campaign keys: campaignType and
\* campaignId absent or present, pricingCampaigns absent, an empty list or a list of one
PricedItems ==
    {[Item(TRUE, FALSE, "") EXCEPT !.mrp = m, !.discountedSellingPrice = d] :
         m \in Amounts, d \in Amounts} \cup
    {[Item(TRUE, FALSE, "") EXCEPT !.campaignType = t, !.campaignId = c,
                                   !.pricingCampaigns = l] :
         t \in {Absent, Some("BRAND")}, c \in {Absent, Some("C1")},
         l \in {Absent, Some(<<>>), Some(<<"OFFER">>)}}

\* an entry of `layout`: a value that is not an object (widget.get raises), a
\* widget that is no product grid, or a product grid
InvalidWidget == [valid |-> FALSE, widgetId |-> <<>>, widgetName |-> <<>>, items |-> <<>>]
Banner == [valid |-> TRUE, widgetId |-> WidgetBanner, widgetName |-> <<>>, items |-> <<>>]
Grid(items) == [valid |-> TRUE, widgetId |-> WidgetGrid, widgetName |-> <<>>, items |-> items]

\* a payload: JSON null, an object without the layout key, or an object with it
NullPayload == [is_null |-> TRUE, has_layout |-> FALSE, layout |-> <<>>]
NoLayoutPayload == [is_null |-> FALSE, has_layout |-> FALSE, layout |-> <<>>]
LayoutPayload(layout) == [is_null |-> FALSE, has_layout |-> TRUE, layout |-> layout]

\* the item lists of at most n entries of the kinds this run has
RECURSIVE ItemSeqs(_)
ItemSeqs(n) ==
    IF n = 0 THEN {<<>>}
    ELSE LET shorter == ItemSeqs(n - 1)
         IN  shorter \cup {Append(x, it) : x \in {y \in shorter : Len(y) = n - 1},
                                            it \in env.items}

\* the layouts of at most w widgets, of the kinds this run has, holding at most n
\* items together
RECURSIVE Layouts(_, _)
Layouts(w, n) ==
    IF w = 0 THEN {<<>>}
    ELSE {<<>>}
         \cup {<<wd>> \o rest : wd \in env.widgets, rest \in Layouts(w - 1, n)}
         \cup UNION { {<<Grid(its)>> \o rest : rest \in Layouts(w - 1, n - Len(its))} :
                      its \in ItemSeqs(n) }

RECURSIVE CountWidgets(_)
CountWidgets(pages) ==
    IF pages = <<>> THEN 0 ELSE Len(Head(pages).layout) + CountWidgets(Tail(pages))

RECURSIVE CountLayoutItems(_)
CountLayoutItems(layout) ==
    IF layout = <<>> THEN 0 ELSE Len(Head(layout).items) + CountLayoutItems(Tail(layout))

RECURSIVE CountItems(_)
CountItems(pages) ==
    IF pages = <<>> THEN 0 ELSE CountLayoutItems(Head(pages).layout) + CountItems(Tail(pages))

\* str.startswith
StartsWith(s, prefix) == Len(s) >= Len(prefix) /\ SubSeq(s, 1, Len(prefix)) = prefix

SkippedUnlessNull(response_data) == ~response_data.is_null /\ ~response_data.has_layout

\* line 494: `not response_data or "layout" not in response_data`
Skipped(response_data) == response_data.is_null \/ ~response_data.has_layout

\* line 501
IsProductGrid(widget) ==
    StartsWith(widget.widgetId, Str_PRODUCT_GRID) \/ StartsWith(widget.widgetName, Str_PRODUCT_GRID)

\* lines 509-510: item.get("product", {}).get("id", "")
ProductId(item) == IF item.has_id THEN item.id ELSE ""

\* line 513
IsDuplicate(product_id, seen) == product_id # "" /\ product_id \in seen

\* lines 517-518
MarkSeen(product_id, seen) == IF product_id # "" THEN seen \cup {product_id} ELSE seen

\* a number with two decimals: whole + cents / 100
Zero == [whole |-> 0, cents |-> 0]

FloorDiv100(v) == [whole |-> v \div 100, cents |-> 0]

\* `v / 100`
TrueDiv100(v) == [whole |-> v \div 100, cents |-> v % 100]

\* lines 543-544: `item.get(key, 0) / 100 if item.get(key) else 0`
Rupees(field) == IF Get(field, 0) # 0 THEN TrueDiv100(Get(field, 0)) ELSE Zero

\* line 558
IsSponsored(item) ==
    \/ Has(item.campaignType)
    \/ Has(item.campaignId)
    \/ (Get(item.pricingCampaigns, <<>>) # <<>> /\ Len(Get(item.pricingCampaigns, <<>>)) > 0)

\* lines 520-559: the fields of product_data that the properties below are about
ProductDataOneBased(k, position, page, product_id, item) ==
    [search_keyword |-> k, position |-> position + 1, page |-> page, product_id |-> product_id,
     mrp |-> Rupees(item.mrp), selling_price |-> Rupees(item.discountedSellingPrice),
     is_sponsored |-> IsSponsored(item)]

ProductData(k, position, page, product_id, item) ==
    [search_keyword |-> k, position |-> position, page |-> page, product_id |-> product_id,
     mrp |-> Rupees(item.mrp), selling_price |-> Rupees(item.discountedSellingPrice),
     is_sponsored |-> IsSponsored(item)]

\* lines 472-473 and 491: the locals of a run
NoLocals == [all_products |-> <<>>, products |-> <<>>, seen |-> {}, raised |-> FALSE]

\* lines 507-566: `for position, item in enumerate(items)`, from entry n on
RECURSIVE ItemLoop(_, _, _, _, _)
ItemLoop(items, n, response_index, k, st) ==
    IF st.raised \/ n > Len(items) THEN st
    ELSE IF ~items[n].valid THEN [st EXCEPT !.raised = TRUE]
    ELSE LET product_id == ProductId(items[n])
             position == n - 1
         IN  IF IsDuplicate(product_id, st.seen)
             THEN ItemLoop(items, n + 1, response_index, k, st)
             ELSE ItemLoop(items, n + 1, response_index, k,
                           [st EXCEPT !.seen = MarkSeen(product_id, @),
                                      !.products = Append(@, ProductData(k, position,
                                                                         response_index + 1,
                                                                         product_id,
                                                                         items[n]))])

\* lines 499-566: `for widget in response_data.get("layout", [])`, from entry n on
RECURSIVE WidgetLoop(_, _, _, _, _)
WidgetLoop(layout, n, response_index, k, st) ==
    IF st.raised \/ n > Len(layout) THEN st
    ELSE IF ~layout[n].valid THEN [st EXCEPT !.raised = TRUE]
    ELSE IF IsProductGrid(layout[n])
         THEN WidgetLoop(layout, n + 1, response_index, k,
                         ItemLoop(layout[n].items, 1, response_index, k, st))
         ELSE WidgetLoop(layout, n + 1, response_index, k, st)

\* lines 490-569: `for response_index, response_data in enumerate(...)`, from entry n on
RECURSIVE PageLoop(_, _, _, _)
PageLoop(responses_to_process, n, k, st) ==
    IF st.raised \/ n > Len(responses_to_process) THEN st
    ELSE LET response_data == responses_to_process[n]
             response_index == n - 1
         IN  IF Skipped(response_data)
             THEN PageLoop(responses_to_process, n + 1, k, st)
             ELSE IF response_data.is_null
                  THEN [st EXCEPT !.raised = TRUE]
                  ELSE LET page == WidgetLoop(response_data.layout, 1, response_index, k,
                                              [st EXCEPT !.products = <<>>])
                       IN  IF page.raised THEN page
                           ELSE PageLoop(responses_to_process, n + 1, k,
                                         [page EXCEPT !.all_products = @ \o page.products])

\* lines 477-487
ResponsesToProcess(k) ==
    IF api_responses[k] # <<>> THEN api_responses[k]
    ELSE IF search_results[k] # NoPayload THEN <<search_results[k]>>
    ELSE <<>>

NotExtracted ==
    [done |-> FALSE, by |-> "none", input |-> <<>>, records |-> <<>>, seen |-> {},
     raised |-> FALSE]

\* lines 472-576: the list returned, the seen-set and whether line 573 caught an exception
extract_data(k) ==
    LET st == PageLoop(ResponsesToProcess(k), 1, k, NoLocals)
    IN  [done |-> TRUE, by |-> "ZeptoScraper", input |-> ResponsesToProcess(k),
         records |-> st.all_products, seen |-> st.seen, raised |-> st.raised]

\* what neither the page list nor the driver's locals hold
NotDriver == <<inflight, decoded, env, ev>>

\* lines 433, 446: a payload is appended to the pages of the keyword
CollectPage(k) ==
    /\ ~extracted.done
    /\ k \in env.keywords
    /\ Len(api_responses[k]) < MaxPages
    /\ \E p \in env.payloads \cup
                {LayoutPayload(l) : l \in Layouts(MaxWidgets - CountWidgets(api_responses[k]),
                                                  env.max_items - CountItems(api_responses[k]))} :
         api_responses' = [api_responses EXCEPT ![k] = Append(@, p)]
    /\ UNCHANGED <<search_results, response_versions, NotDriver, DriverVars, extracted,
                   aggregator, session, wrapper>>

\* lines 462-576: the caller extracts the records of the keyword
ExtractData(k) ==
    /\ ~extracted.done
    /\ k \in env.keywords
    /\ extracted' = extract_data(k)
    /\ UNCHANGED <<ledger, NotDriver, DriverVars, aggregator, session, wrapper>>

----------------------------------------------------------------------------
\* ZeptoDataProcessor.extract_products_from_api_response

\* data_processor.py lines 140-142
ProcessorIsSponsored(item) == Has(item.campaignType) \/ Has(item.campaignId)

\* data_processor.py lines 109-142: the fields of product_data that the properties
\* below are about
ProcessorProductData(k, region, position, item) ==
    [search_keyword |-> k, region |-> region, position |-> position,
     mrp |-> Rupees(item.mrp), selling_price |-> Rupees(item.discountedSellingPrice),
     is_sponsored |-> ProcessorIsSponsored(item)]

\* data_processor.py lines 108-150: `for position, item in enumerate(items)`, from
\* entry n on
RECURSIVE ProcessorItemLoop(_, _, _, _, _)
ProcessorItemLoop(items, n, k, region, st) ==
    IF st.raised \/ n > Len(items) THEN st
    ELSE IF ~items[n].valid THEN [st EXCEPT !.raised = TRUE]
    ELSE ProcessorItemLoop(items, n + 1, k, region,
                           [st EXCEPT !.products = Append(@, ProcessorProductData(
                                                                 k, region, n - 1, items[n]))])

\* data_processor.py lines 100-150: `for widget in api_response.get("layout", [])`,
\* from entry n on
RECURSIVE ProcessorWidgetLoop(_, _, _, _, _)
ProcessorWidgetLoop(layout, n, k, region, st) ==
    IF st.raised \/ n > Len(layout) THEN st
    ELSE IF ~layout[n].valid THEN [st EXCEPT !.raised = TRUE]
    ELSE IF IsProductGrid(layout[n])
         THEN ProcessorWidgetLoop(layout, n + 1, k, region,
                                  ProcessorItemLoop(layout[n].items, 1, k, region, st))
         ELSE ProcessorWidgetLoop(layout, n + 1, k, region, st)

\* data_processor.py lines 91-157: the list returned, and whether line 154 caught an
\* exception
extract_products_from_api_response(api_response, k, region) ==
    LET st == IF Skipped(api_response) THEN NoLocals
              ELSE ProcessorWidgetLoop(api_response.layout, 1, k, region, NoLocals)
    IN  [done |-> TRUE, by |-> "ZeptoDataProcessor", input |-> <<api_response>>,
         records |-> st.products, seen |-> {}, raised |-> st.raised]

\* data_processor.py lines 80-157: the processor extracts the records of one saved
\* payload of the keyword
ExtractProducts(k) ==
    /\ ~extracted.done
    /\ k \in env.keywords
    /\ \E n \in 1..Len(api_responses[k]) :
         extracted' = extract_products_from_api_response(api_responses[k][n], k, "default")
    /\ UNCHANGED <<ledger, NotDriver, DriverVars, aggregator, session, wrapper>>

----------------------------------------------------------------------------
\* ZeptoDataProcessor.process_extracted_data

Regions == {"default", "north"}
Brands == {"Amul", "Nestle", "Britannia"}

\* the columns of a record that the share-of-voice columns are computed from; a
\* position is invalid (-1), the first (0) or the last
Records(keywords, regions, brands) ==
    {[search_keyword |-> k, region |-> g, brand |-> b, position |-> p] :
         k \in keywords, g \in regions, b \in brands, p \in {-1, 0, MaxPosition}}

\* df[name].unique(): the values of a column in order of first appearance
RECURSIVE Unique(_, _, _)
Unique(df, name, seen) ==
    IF df = <<>> THEN <<>>
    ELSE IF Head(df)[name] \in seen THEN Unique(Tail(df), name, seen)
    ELSE <<Head(df)[name]>> \o Unique(Tail(df), name, seen \cup {Head(df)[name]})

FilteredByKeyword(df, k, region) == SelectSeq(df, LAMBDA r : r.search_keyword = k)

\* line 176
Filtered(df, k, region) == SelectSeq(df, LAMBDA r : r.search_keyword = k /\ r.region = region)

\* brand_counts[brand]
Count(df, brand) == Len(SelectSeq(df, LAMBDA r : r.brand = brand))

\* the brands by descending count, equal counts in order of first appearance
RECURSIVE SortByCount(_, _)
SortByCount(brands, df) ==
    IF brands = <<>> THEN <<>>
    ELSE LET best == CHOOSE n \in 1..Len(brands) :
                         \A m \in 1..Len(brands) :
                             \/ Count(df, brands[m]) < Count(df, brands[n])
                             \/ (Count(df, brands[m]) = Count(df, brands[n]) /\ n <= m)
         IN  <<brands[best]>>
             \o SortByCount(SubSeq(brands, 1, best - 1) \o SubSeq(brands, best + 1, Len(brands)),
                            df)

\* line 182: filtered_data['brand'].value_counts().index
value_counts(df) == SortByCount(Unique(df, "brand", {}), df)

\* the unit the weights are counted in, 1/n!: every 1/(pos+1) with pos < n is a
\* whole number of units
RECURSIVE WeightDen(_)
WeightDen(n) == IF n = 0 THEN 1 ELSE n * WeightDen(n - 1)

\* line 187: 1/(pos+1)
Weight(pos) == WeightDen(MaxPosition + 1) \div (pos + 1)

ValidPositionStrict(pos) == pos > 0

\* line 187: `if pos >= 0`
ValidPosition(pos) == pos >= 0

\* lines 186-188: brand_weighted_scores[brand]
RECURSIVE Score(_, _)
Score(df, brand) ==
    IF df = <<>> THEN 0
    ELSE (IF Head(df).brand = brand /\ ValidPosition(Head(df).position)
          THEN Weight(Head(df).position) ELSE 0)
         + Score(Tail(df), brand)

\* line 189: brand_weighted_scores.sum()
RECURSIVE SumScores(_, _)
SumScores(brands, df) ==
    IF brands = <<>> THEN 0 ELSE Score(df, Head(brands)) + SumScores(Tail(brands), df)

\* the integer nearest to n / d, the even one of two equally near
RoundHalfEven(n, d) ==
    LET q == n \div d
        r == n % d
    IN  IF 2 * r < d THEN q
        ELSE IF 2 * r > d THEN q + 1
        ELSE IF q % 2 = 0 THEN q ELSE q + 1

Fraction(n, d) ==
    LET hundredths == RoundHalfEven(n * 100, d)
    IN  [whole |-> hundredths \div 100, cents |-> hundredths % 100]

\* lines 197-198: round((n / d) * 100, 2)
Percent(n, d) ==
    LET hundredths == RoundHalfEven(n * 10000, d)
    IN  [whole |-> hundredths \div 100, cents |-> hundredths % 100]

\* lines 182-205: the rows of one keyword and region (line 183: total_products is
\* len(filtered_data))
RowsOfPair(df, k, region) ==
    LET filtered_data == Filtered(df, k, region)
        brand_counts == value_counts(filtered_data)
        total_weighted_score == SumScores(brand_counts, filtered_data)
    IN  [n \in 1..Len(brand_counts) |->
             [keyword |-> k, region |-> region, brand |-> brand_counts[n],
              product_count |-> Count(filtered_data, brand_counts[n]),
              sov_percentage |-> Percent(Count(filtered_data, brand_counts[n]),
                                         Len(filtered_data)),
              weighted_sov |-> IF total_weighted_score > 0
                               THEN Percent(Score(filtered_data, brand_counts[n]),
                                            total_weighted_score)
                               ELSE Zero]]

\* lines 174-205: `for region in df['region'].unique()`, from entry n on
RECURSIVE RegionLoop(_, _, _, _)
RegionLoop(df, k, regions, n) ==
    IF n > Len(regions) THEN <<>>
    ELSE RowsOfPair(df, k, regions[n]) \o RegionLoop(df, k, regions, n + 1)

\* lines 173-205: `for keyword in df['search_keyword'].unique()`, from entry n on
RECURSIVE KeywordLoop(_, _, _)
KeywordLoop(df, keywords, n) ==
    IF n > Len(keywords) THEN <<>>
    ELSE RegionLoop(df, keywords[n], Unique(df, "region", {}), 1)
         \o KeywordLoop(df, keywords, n + 1)

KeptList(earlier) == IF earlier = <<>> THEN <<>> ELSE earlier[Len(earlier)].output.rows

\* line 170: `sov_results = []`, whatever the earlier calls returned
NewList(earlier) == <<>>

\* lines 163-208: None for no data, else the frame of the rows
process_extracted_data(df, earlier) ==
    IF df = <<>> THEN [none |-> TRUE, rows |-> <<>>]
    ELSE [none |-> FALSE,
          rows |-> NewList(earlier)
                   \o KeywordLoop(df, Unique(df, "search_keyword", {}), 1)]

NotAggregator == <<ledger, NotDriver, DriverVars, extracted, session, wrapper>>

\* lines 34-78: the caller collects one more record
AddRecord ==
    /\ calls = <<>>
    /\ Len(raw_data) < MaxRecords
    /\ \E r \in env.records : raw_data' = Append(raw_data, r)
    /\ UNCHANGED <<calls, NotAggregator>>

\* lines 159-208: the caller has the collection aggregated
ProcessExtractedData ==
    /\ Len(calls) < env.max_calls
    /\ calls' = Append(calls, [input |-> raw_data,
                               output |-> process_extracted_data(raw_data, calls)])
    /\ UNCHANGED <<raw_data, NotAggregator>>

\* zepto_scraper.py lines 520-566: the keys that extract_data assigns to product_data
ProductDataKeys ==
    {"search_keyword", "position", "page", "product_id", "product_name", "brand", "category",
     "image_url", "product_url", "mrp", "selling_price", "discount_percent", "is_in_stock",
     "available_quantity", "average_rating", "total_ratings", "is_sponsored", "weight",
     "pack_size", "unit_of_measure"}

\* lines 173-204: the columns of df that process_extracted_data reads
ColumnsRead ==
    {"search_keyword", "region", "brand", "position", "average_rating", "selling_price",
     "is_sponsored"}

\* lines 159-208: the caller has the records of ZeptoScraper.extract_data aggregated;
\* the frame has the keys of the records as its columns, and reading a column it
\* does not have raises KeyError
AggregateExtracted ==
    /\ extracted.done
    /\ extracted.by = "ZeptoScraper"
    /\ calls = <<>>
    /\ LET df == extracted.records
           output == IF df = <<>> THEN [none |-> TRUE, rows |-> <<>>, raised |-> FALSE]
                     ELSE IF ~(ColumnsRead \subseteq ProductDataKeys)
                          THEN [none |-> FALSE, rows |-> <<>>, raised |-> TRUE]
                          ELSE [none |-> FALSE, rows |-> process_extracted_data(df, calls).rows,
                                raised |-> FALSE]
       IN  calls' = <<[input |-> df, output |-> output]>>
    /\ UNCHANGED <<raw_data, NotAggregator>>

\* lines 159-208: the caller has another collection aggregated, here the collection
\* without its last record
ProcessOther ==
    /\ Len(calls) < env.max_calls
    /\ raw_data # <<>>
    /\ LET other == SubSeq(raw_data, 1, Len(raw_data) - 1)
       IN  calls' = Append(calls, [input |-> other,
                                   output |-> process_extracted_data(other, calls)])
    /\ UNCHANGED <<raw_data, NotAggregator>>

----------------------------------------------------------------------------
\* ScraperFactory and scrape_platform

Zepto == <<"z", "e", "p", "t", "o">>

\* str.lower()
Lower(s) == [n \in 1..Len(s) |-> CASE s[n] = "Z" -> "z" [] s[n] = "B" -> "b" [] OTHER -> s[n]]

\* scraper_factory.py lines 21-26
_scrapers == (Zepto :> "ZeptoScraper")

\* scraper_factory.py lines 37-40: a class that is no scraper raises and registers nothing
register_scraper(registry, name, scraper_class) ==
    IF scraper_class # "ZeptoScraper" THEN registry
    ELSE (Lower(name) :> scraper_class) @@ registry

\* scraper_factory.py lines 55-69: the class of the instance, or "None" for an
\* unsupported platform or a constructor that raises
create_scraper(registry, name, constructs) ==
    IF Lower(name) \notin DOMAIN registry THEN "None"
    ELSE IF constructs THEN registry[Lower(name)] ELSE "None"

CreateFailedNever(scraper) == FALSE

\* quickcomm_scraper.py line 55: `if not scraper`
CreateFailed(scraper) == scraper = "None"

NavigationFailedNever(site_loaded) == FALSE

\* quickcomm_scraper.py line 80: `if not site_loaded`
NavigationFailed(site_loaded) == ~site_loaded

\* zepto_scraper.py lines 343 and 462: the parameters, after self, of the methods
\* of ZeptoScraper that scrape_platform calls with a keyword
ZeptoSignature == [search_for_keyword |-> 1, extract_data |-> 1]

\* a call with that many arguments binds; otherwise it raises TypeError
Accepts(method, arguments) == ZeptoSignature[method] = arguments

\* quickcomm_scraper.py lines 56-60 and 67-72
Results(created) ==
    [success |-> created, error |-> ~created, has_keywords |-> created, keywords |-> <<>>,
     data_captured |-> 0]

NotRun ==
    [pc |-> "none", platform |-> <<>>, keywords |-> <<>>, regions |-> FALSE, scraper |-> "None",
     browser |-> FALSE, site_loaded |-> FALSE, idx |-> 0, response_data |-> NoRet,
     raised |-> FALSE, results |-> Results(FALSE), initialized |-> 0, navigations |-> 0,
     searched |-> 0, closed |-> 0]

\* the keyword lists of at most n keywords
RECURSIVE KeywordLists(_)
KeywordLists(n) ==
    IF n = 0 THEN {<<>>}
    ELSE KeywordLists(n - 1) \cup {Append(l, k) : l \in KeywordLists(n - 1), k \in Keywords}

\* quickcomm_scraper.py lines 87-96 and 115: the head of `for keyword in keywords`;
\* with regions the search is called with two arguments (lines 92-112 are reached
\* with no scraper class of the repository)
LoopHead(r) ==
    IF r.idx > Len(r.keywords) THEN [r EXCEPT !.pc = "close"]
    ELSE IF r.regions /\ ~Accepts("search_for_keyword", 2)
         THEN [r EXCEPT !.pc = "close", !.raised = TRUE]
         ELSE [r EXCEPT !.pc = "search"]

\* `if response_data`
NonEmpty(response_data) == response_data.kind = "list" /\ response_data.pages # <<>>

NotSession == <<search_results, response_versions, NotDriver, DriverVars, extracted, aggregator,
                wrapper>>

\* scraper_factory.py lines 28-41
RegisterScraper(name, scraper_class) ==
    /\ scrapers' = register_scraper(scrapers, name, scraper_class)
    /\ scrapers' # scrapers
    /\ UNCHANGED <<run, api_responses, NotSession>>

\* quickcomm_scraper.py lines 47-76: the call, up to the first await
ScrapePlatform(name, keywords, regions, constructs) ==
    /\ run.pc = "none"
    /\ LET scraper == create_scraper(scrapers, name, constructs)
       IN  run' = [NotRun EXCEPT !.pc = IF CreateFailed(scraper) THEN "returned"
                                       ELSE "initialize",
                                 !.platform = name, !.keywords = keywords,
                                 !.regions = regions, !.scraper = scraper,
                                 !.results = Results(~CreateFailed(scraper))]
    /\ UNCHANGED <<scrapers, api_responses, NotSession>>

\* quickcomm_scraper.py line 76, base_scraper.py __aenter__: initialize() has started
\* the browser or has failed
Initialize(ok) ==
    /\ run.pc = "initialize"
    /\ run' = [run EXCEPT !.pc = "navigate", !.browser = ok, !.initialized = @ + 1]
    /\ UNCHANGED <<scrapers, api_responses, NotSession>>

\* quickcomm_scraper.py lines 78-87: navigate_to_site() has returned
NavigateToSite(site_loaded) ==
    /\ run.pc = "navigate"
    /\ site_loaded => run.browser
    /\ LET r == [run EXCEPT !.site_loaded = site_loaded, !.navigations = @ + 1]
       IN  run' = IF NavigationFailed(site_loaded)
                  THEN [r EXCEPT !.pc = "close", !.results.success = FALSE,
                                 !.results.error = TRUE]
                  ELSE LoopHead([r EXCEPT !.idx = 1])
    /\ UNCHANGED <<scrapers, api_responses, NotSession>>

\* quickcomm_scraper.py line 115: search_for_keyword(keyword) has collected pages and
\* returns the pages of the keyword, or has caught an exception and returns {}
SearchForKeyword(collected, caught) ==
    /\ run.pc = "search"
    /\ LET k == run.keywords[run.idx]
           pages == api_responses[k] \o collected
       IN  /\ api_responses' = [api_responses EXCEPT ![k] = pages]
           /\ run' = [run EXCEPT !.pc = "result", !.searched = @ + 1,
                                 !.response_data = IF caught THEN [kind |-> "dict", pages |-> <<>>]
                                                   ELSE [kind |-> "list", pages |-> pages]]
    /\ UNCHANGED <<scrapers, NotSession>>

\* quickcomm_scraper.py lines 118-129: the entry of the keyword, or the TypeError of
\* the extract_data call
HandleResponseData ==
    /\ run.pc = "result"
    /\ LET k == run.keywords[run.idx]
           entry(success, products_found) ==
               [success |-> success, products_found |-> products_found]
       IN  run' = IF ~NonEmpty(run.response_data)
                  THEN LoopHead([run EXCEPT !.idx = @ + 1,
                                            !.results.keywords = (k :> entry(FALSE, 0)) @@ @])
                  ELSE IF ~Accepts("extract_data", 2)
                  THEN [run EXCEPT !.pc = "close", !.raised = TRUE]
                  ELSE LoopHead([run EXCEPT !.idx = @ + 1,
                                            !.results.keywords =
                                                (k :> entry(TRUE, Len(extract_data(k).records)))
                                                @@ @,
                                            !.results.data_captured = @ + 1])
    /\ UNCHANGED <<scrapers, api_responses, NotSession>>

\* quickcomm_scraper.py lines 76 and 131-136, base_scraper.py __aexit__: close() has
\* run, an exception is recorded, the results are returned
Close ==
    /\ run.pc = "close"
    /\ run' = [run EXCEPT !.pc = "returned", !.closed = @ + 1,
                          !.results.success = IF run.raised THEN FALSE ELSE @,
                          !.results.error = IF run.raised THEN TRUE ELSE @]
    /\ UNCHANGED <<scrapers, api_responses, NotSession>>

----------------------------------------------------------------------------
\* utils.retry: the wrapper it returns

\* outcomes: what each invocation of func did, in order: it returned a value
\* ("value"), raised an exception of a type in `exceptions` ("listed"), or raised
\* one of another type ("other"); result: the invocation whose value or exception
\* left the wrapper
NotCalled == [pc |-> "none", max_retries |-> 0, mtries |-> 0, mdelay |-> 0, backoff |-> 0,
              outcomes |-> <<>>, result |-> 0]

\* line 55: while mtries > 0
LoopGoesOnAtZero(mtries) == mtries >= 0

LoopGoesOn(mtries) == mtries > 0

\* lines 52-53: the wrapper is called
CallWrapper(max_retries, delay, backoff) ==
    /\ wrapper.pc = "none"
    /\ wrapper' = [NotCalled EXCEPT !.pc = "func", !.max_retries = max_retries,
                                    !.mtries = max_retries, !.mdelay = delay,
                                    !.backoff = backoff]
    /\ UNCHANGED <<ledger, NotDriver, DriverVars, extracted, aggregator, session>>

\* lines 55-63 and 69: one invocation of func, in the loop (lines 56-57) or as the
\* final attempt (line 69), up to the return, the raise or the sleep of line 65
CallFunc(outcome) ==
    /\ wrapper.pc = "func"
    /\ LET n == Len(wrapper.outcomes) + 1
       IN  wrapper' =
             IF outcome = "value"
             THEN [wrapper EXCEPT !.outcomes = Append(@, outcome), !.pc = "returned", !.result = n]
             ELSE IF LoopGoesOn(wrapper.mtries) /\ outcome = "listed"
                  THEN [wrapper EXCEPT !.outcomes = Append(@, outcome), !.pc = "sleep"]
                  ELSE [wrapper EXCEPT !.outcomes = Append(@, outcome), !.pc = "raised",
                                       !.result = n]
    /\ UNCHANGED <<ledger, NotDriver, DriverVars, extracted, aggregator, session>>

\* lines 65-67: time.sleep(mdelay) returns
SleepDone ==
    /\ wrapper.pc = "sleep"
    /\ wrapper' = [wrapper EXCEPT !.mtries = @ - 1, !.mdelay = @ * wrapper.backoff, !.pc = "func"]
    /\ UNCHANGED <<ledger, NotDriver, DriverVars, extracted, aggregator, session>>

----------------------------------------------------------------------------
\* the network delivers any response at any time; the caller searches any keywords
OpenEnv == [responses |-> MaxResponses, inflight |-> MaxInFlight, searches |-> MaxSearches,
            posts |-> PostDatas, keywords |-> Keywords]

\* one search whose requests have no body and whose responses arrive one at a time
PagingEnv == [responses |-> PagingResponses, inflight |-> 1, searches |-> 1,
              posts |-> {NoBody}, keywords |-> {KeyA}]

\* the scraper after __init__ (lines 29-33) and initialize
Constructed ==
    /\ search_results = [k \in AllKeys |-> NoPayload]
    /\ response_versions = [k \in AllKeys |-> 0]
    /\ api_responses = [k \in AllKeys |-> <<>>]
    /\ current_keyword = None
    /\ inflight = EmptyBag
    /\ pc = "idle"
    /\ keyword = None
    /\ current_version = 0
    /\ polls = 0
    /\ i = 0
    /\ wait_ret = "none"
    /\ ret = NoRet
    /\ ev = NoEv
    /\ decoded = 0
    /\ searches = 0
    /\ triggers = 0
    /\ start_len = 0
    /\ start_version = 0
    /\ initial = FALSE
    /\ extracted = NotExtracted
    /\ raw_data = <<>>
    /\ calls = <<>>
    /\ scrapers = _scrapers
    /\ run = NotRun
    /\ wrapper = NotCalled

Init == Constructed /\ env = OpenEnv

\* the state after construction, in a run of the kind e
InitOf(e) == Constructed /\ env = e

InitPaging == Constructed /\ env = PagingEnv

Next ==
    \/ HandleIgnored
    \/ HandleMatched
    \/ \E c \in BagToSet(inflight) : DecodeOk(c)
    \/ \E c \in BagToSet(inflight) : DecodeFail(c)
    \/ \E k \in Keywords : StartSearch(k)
    \/ UiDone
    \/ UiFail
    \/ PollWake
    \/ ScrollDone
    \/ ScrollFail

Spec == Init /\ [][Next]_vars

SpecPaging == InitPaging /\ [][Next]_vars

\* the pages of one keyword are given and the caller extracts them: any payloads
ExtractEnv == [keywords |-> {KeyA}, payloads |-> {NullPayload, NoLayoutPayload},
               widgets |-> {InvalidWidget, Banner}, items |-> Items, max_items |-> MaxItems]

\* the same with payloads that have a layout of objects whose items are objects
WellFormedEnv == [keywords |-> {KeyA}, payloads |-> {}, widgets |-> {Banner},
                  items |-> {it \in Items : it.valid}, max_items |-> WellFormedItems]

InitExtract == Constructed /\ env = ExtractEnv

InitWellFormed == Constructed /\ env = WellFormedEnv

NextExtract ==
    \/ \E k \in Keywords : CollectPage(k)
    \/ \E k \in Keywords : ExtractData(k)

SpecExtract == InitExtract /\ [][NextExtract]_vars

SpecWellFormed == InitWellFormed /\ [][NextExtract]_vars

\* page lists in which payloads that extract_data skips stand between pages of
\* items with product ids
SkippingEnv == [keywords |-> {KeyA}, payloads |-> {NullPayload, NoLayoutPayload},
                widgets |-> {Banner}, items |-> {Item(TRUE, TRUE, x) : x \in ProductIds},
                max_items |-> WellFormedItems]

SpecSkipping == InitOf(SkippingEnv) /\ [][NextExtract]_vars

\* the records that extract_data returns for well-formed pages are aggregated
SpecPipeline == InitOf(WellFormedEnv) /\ [][NextExtract \/ AggregateExtracted]_vars

\* the steps of the search_for_keyword coroutine
\* the pages of one keyword hold grids of objects with price or campaign keys
PricedEnv == [keywords |-> {KeyA}, payloads |-> {}, widgets |-> {}, items |-> PricedItems,
              max_items |-> PricedItemsPerRun]

SpecPriced ==
    /\ InitOf(PricedEnv)
    /\ [][NextExtract \/ \E k \in Keywords : ExtractProducts(k)]_vars

\* the records of several keywords and regions are aggregated once
SovEnv == [records |-> Records(Keywords, Regions, {"Amul", "Nestle"}), max_calls |-> 1]

\* the records of one keyword and region are aggregated again and again
RepeatEnv == [records |-> Records({KeyA}, {"default"}, Brands), max_calls |-> MaxCalls]

SpecSov == InitOf(SovEnv) /\ [][AddRecord \/ ProcessExtractedData]_vars

SpecRepeat == InitOf(RepeatEnv) /\ [][AddRecord \/ ProcessExtractedData \/ ProcessOther]_vars

\* one scrape_platform call for any platform name and keyword list, while scraper
\* classes are registered
PlatformEnv ==
    [platforms |-> {Zepto, <<"Z", "e", "p", "t", "o">>, <<"B", "l", "i", "n", "k", "i", "t">>},
     registered |-> {<<"B", "L", "I", "N", "K", "I", "T">>},
     classes |-> {"ZeptoScraper", "dict"},
     collected |-> {<<>>, <<LayoutPayload(<<Grid(<<Item(TRUE, TRUE, "P1")>>)>>)>>}]

SpecPlatform ==
    /\ InitOf(PlatformEnv)
    /\ [][\/ \E name \in env.registered, c \in env.classes : RegisterScraper(name, c)
          \/ \E name \in env.platforms, l \in KeywordLists(MaxKeywords), g, c \in BOOLEAN :
                 ScrapePlatform(name, l, g, c)
          \/ \E ok \in BOOLEAN : Initialize(ok)
          \/ \E site_loaded \in BOOLEAN : NavigateToSite(site_loaded)
          \/ \E collected \in env.collected, caught \in BOOLEAN :
                 SearchForKeyword(collected, caught)
          \/ HandleResponseData
          \/ Close]_vars

\* calls of a function wrapped by retry(max_retries, delay, backoff)
RetryEnv == [max_retries |-> 0..MaxRetries, delays |-> {0, 2}, backoffs |-> {1, 2}]

SpecRetry ==
    InitOf(RetryEnv) /\
    [][\/ \E n \in env.max_retries, d \in env.delays, b \in env.backoffs : CallWrapper(n, d, b)
       \/ \E outcome \in {"value", "listed", "other"} : CallFunc(outcome)
       \/ SleepDone]_vars

Driver == UiDone \/ UiFail \/ PollWake \/ ScrollDone \/ ScrollFail

\* every await of search_for_keyword ends: asyncio.sleep returns after its delay,
\* the load-state waits carry a timeout (lines 421, 441) and the UI actions carry
\* the browser's default timeout, and the event loop then resumes the coroutine
SpecPagingFair == InitPaging /\ [][Next]_vars /\ WF_vars(Driver)

----------------------------------------------------------------------------
\* Properties

\* the callback c is the one that finished in this step
Finished(c) == BagIn(c, inflight) /\ inflight' = inflight (-) SetToBag({c})

\* the value of the parameter `name` of a request body of the form p1&p2&...,
\* percent-decoded; <<>> when no parameter has that name
RECURSIVE ParamValue(_, _)
ParamValue(params, name) ==
    IF params = <<>> THEN <<>>
    ELSE IF Len(Head(params)) >= Len(name) /\ SubSeq(Head(params), 1, Len(name)) = name
         THEN Unquote(SubSeq(Head(params), Len(name) + 1, Len(Head(params))))
         ELSE ParamValue(Tail(params), name)

QueryOf(post) == IF post.readable THEN ParamValue(Split(post.data, Str_amp), Str_query) ELSE <<>>

\* C1: when every response attributed to K so far arrived during the search for K
\* (K had none before it), the list the search returns has exactly one page per
\* such response: its length is K's version counter.
C1_EveryResponseCollected ==
    [][(pc # "idle" /\ pc' = "idle" /\ ret'.kind = "list" /\ start_version = 0)
        => Len(ret'.pages) = response_versions'[keyword]]_vars

\* C2: whatever the interleaving of suspended callbacks, the version counters
\* together count exactly the matched responses whose body decoded: each of them
\* incremented one key's counter and no increment was lost.
C2_NoLostIncrement ==
    response_versions[KeyA] + response_versions[KeyAB] + response_versions[Unknown] = decoded

C2_Witness ==
    /\ ev.type = "stored"
    /\ response_versions[KeyA] = 1
    /\ \E c \in BagToSet(inflight) : ResolveKey(current_keyword, c.post) = KeyA

\* C3: a callback whose body fails to decode changes no version counter and no
\* stored payload.
C3_DecodeFailureDropped ==
    [][\A c \in BagToSet(inflight) :
          (Finished(c) /\ decoded' = decoded)
          => (response_versions' = response_versions /\ search_results' = search_results)]_vars

C3_Witness ==
    /\ ev.type = "dropped"
    /\ response_versions[KeyA] = 1
    /\ search_results[KeyA] # NoPayload

\* C4: no callback ends by propagating an exception.
C4_NeverRaises == ev.type # "raised"

C4_Witness ==
    /\ ev.type = "dropped"
    /\ decoded = 0
    /\ \E c \in BagToSet(inflight) : ~c.post.readable

\* C5: a response whose method is not POST or whose URL does not end with the
\* search suffix changes nothing in the ledger, neither when it is delivered nor later.
C5_NonMatchingIgnored ==
    [][/\ (ev'.type = "ignored" /\ (ev'.method # "POST" \/ ev'.url[Len(ev'.url)] # "search"))
          => UNCHANGED ledger
       /\ \A c \in BagToSet(inflight) :
            (Finished(c) /\ (c.method # "POST" \/ c.url[Len(c.url)] # "search"))
            => UNCHANGED ledger]_vars

C5_Witness ==
    /\ ev.type = "ignored"
    /\ ev.method = "GET"
    /\ response_versions[KeyA] = 1

C7_FallbackIsKeywordAtIssue ==
    [][\A c \in BagToSet(inflight) :
          (Finished(c) /\ decoded' = decoded + 1 /\ c.post.readable
             /\ QueryOf(c.post) = <<>> /\ c.issued # None)
          => response_versions'[c.issued] = response_versions[c.issued] + 1]_vars

\* C8: when the first-page wait times out with nothing captured for the keyword,
\* no load-more trigger is issued and no page is added for this search.
C8_TimeoutEndsSearch ==
    (wait_ret = "false" /\ ~initial)
    => (triggers = 0 /\ Len(api_responses[keyword]) = start_len)

\* C9: the wait reports success only once the keyword's version exceeds the version
\* it observed when it began.
C9_StrictIncrease ==
    [][(wait_ret = "none" /\ wait_ret' = "true")
        => response_versions'[keyword] > current_version']_vars

\* C10 as stated: a returned list never has more than max_scrolls pages.
C10_AtMostCapPages == ret.kind = "list" => Len(ret.pages) <= max_scrolls

\* C10 as amended: one call issues at most max_scrolls load-more triggers and
\* collects at most one page before the first and one per trigger, so the returned
\* list has at most 1 + max_scrolls pages more than the keyword had when the call began.
C10_AtMostCapPlusInitial ==
    /\ triggers <= max_scrolls
    /\ keyword # None => Len(api_responses[keyword]) <= start_len + 1 + triggers
    /\ ret.kind = "list" => Len(ret.pages) <= start_len + 1 + max_scrolls

C10_Witness ==
    /\ ret.kind = "list"
    /\ start_len = 0
    /\ Len(ret.pages) = 1 + max_scrolls

\* a step of the search_for_keyword coroutine
DriverStep == pc' # pc \/ i' # i

\* the pages the pagination loop of the running search has appended so far
Produced == Len(api_responses[keyword]) - start_len - (IF initial THEN 1 ELSE 0)

\* the load-more attempt that completes now finds no new page
Stalled == pc = "scroll" /\ DriverStep /\ ~IsNew(search_results, api_responses, keyword)

\* C11: when load-more attempts 1, 2 and 3 each produced a page and attempt 4
\* finds none, the search ends at attempt 4: the pages of attempts 1-3 stay
\* recorded and are returned, and attempt 4 was the only further trigger.
C11_ThreePagesThenOneStall ==
    [][(Stalled /\ i = 3 /\ Produced = 3)
        => /\ pc' = "idle"
           /\ triggers = 3 + 1
           /\ triggers' = triggers
           /\ api_responses'[keyword] = api_responses[keyword]
           /\ ret'.kind = "list" => Len(ret'.pages) = start_len + (IF initial THEN 1 ELSE 0) + 3]_vars

C11_Witness ==
    /\ pc = "idle"
    /\ ret.kind = "list"
    /\ initial
    /\ start_len = 0
    /\ Len(ret.pages) = 1 + 3
    /\ triggers = 3 + 1

\* C12 as stated: an attempt that finds no new page while the loop has produced
\* fewer than 2 pages ends the loop, and no further trigger is issued.
C12_StallBeforeTwoPagesStops ==
    [][(Stalled /\ Produced < 2) => (pc' = "idle" /\ triggers' = triggers)]_vars

\* C12 as amended: an attempt that finds no new page ends the loop, with no
\* further trigger, exactly when it is the third attempt or a later one; a first
\* or second attempt that finds no new page and does not raise is followed by the
\* next trigger, whatever the number of pages produced.
C12_StallFromThirdAttemptStops ==
    [][Stalled
        => IF i >= 2
           THEN pc' = "idle" /\ triggers' = triggers
           ELSE ret'.kind # "dict" => (pc' = "scroll" /\ i' = i + 1 /\ triggers' = triggers + 1)]_vars

C12_Witness ==
    /\ pc = "idle"
    /\ ret.kind = "list"
    /\ initial
    /\ start_len = 0
    /\ Len(ret.pages) = 1
    /\ triggers = 3

\* C13 as stated: once the loop has produced at least 2 pages, the first attempt
\* that finds no new page is followed by another trigger (unless it is the last
\* attempt of the cap or it raises), and the second such attempt ends the loop.
C13_OneStallTolerated ==
    [][(Stalled /\ Produced >= 2)
        => IF i = Produced
           THEN (i + 1 < max_scrolls /\ ret'.kind # "dict")
                => (pc' = "scroll" /\ triggers' = triggers + 1)
           ELSE pc' = "idle" /\ triggers' = triggers]_vars

\* C13 as amended: once the loop has produced at least 2 pages, no attempt that
\* finds no new page is tolerated: the first such attempt ends the loop and no
\* further trigger is issued.
C13_NoStallTolerated ==
    [][(Stalled /\ Produced >= 2) => (pc' = "idle" /\ triggers' = triggers)]_vars

C13_Witness ==
    /\ pc = "idle"
    /\ ret.kind = "list"
    /\ initial
    /\ start_len = 0
    /\ Len(ret.pages) = 1 + 2
    /\ triggers = 3

\* C14: however the search ended, what the caller received holds the pages
\* collected for the keyword, in order: collected pages are never replaced by an
\* empty result.
C14_CollectedPagesReturned ==
    (pc = "idle" /\ ret.kind # "none") => ret.pages = api_responses[keyword]

\* C15: every search that starts returns; the first-page wait makes fewer than
\* TotalPolls sleeps before it gives up, and one search issues at most max_scrolls
\* load-more triggers, also when no search response is ever delivered.
C15_SearchTerminates ==
    /\ (pc # "idle") ~> (pc = "idle")
    /\ [](polls < TotalPolls)
    /\ [](triggers <= max_scrolls)

C15_Witness ==
    /\ pc = "idle"
    /\ ret.kind = "list"
    /\ wait_ret = "false"
    /\ decoded = 0
    /\ inflight = EmptyBag
    /\ ret.pages = <<>>
    /\ triggers = 3

\* the pages given to the extract_data run
Pages == api_responses[KeyA]

\* a payload that has the layout key, whose widgets are objects and whose product
\* grids hold objects only
WellFormed(p) ==
    /\ ~p.is_null
    /\ p.has_layout
    /\ \A w \in 1..Len(p.layout) :
         /\ p.layout[w].valid
         /\ IsProductGrid(p.layout[w])
            => \A j \in 1..Len(p.layout[w].items) : p.layout[w].items[j].valid

\* the items of the well-formed pages: <<page, widget, index in the item list>>
Entries ==
    UNION { UNION { {<<n, w, j>> : j \in 1..Len(Pages[n].layout[w].items)} :
                    w \in {v \in 1..Len(Pages[n].layout) : IsProductGrid(Pages[n].layout[v])} } :
            n \in {m \in 1..Len(Pages) : WellFormed(Pages[m])} }

IdAt(e) == ProductId(Pages[e[1]].layout[e[2]].items[e[3]])

Earlier(e, f) ==
    \/ e[1] < f[1]
    \/ e[1] = f[1] /\ e[2] < f[2]
    \/ e[1] = f[1] /\ e[2] = f[2] /\ e[3] < f[3]

\* e is the first occurrence of its id
First(e) == \A f \in Entries : IdAt(f) = IdAt(e) => ~Earlier(f, e)

RecordsOf(id) == {r \in 1..Len(extracted.records) : extracted.records[r].product_id = id}

\* C16: every non-empty product id of the pages has exactly one record, and that
\* record carries the page and the position of the id's first occurrence.
C16_EachIdOnceAtFirstOccurrence ==
    extracted.done
    => \A e \in Entries :
         (IdAt(e) # "" /\ First(e))
         => \E r \in RecordsOf(IdAt(e)) :
              /\ RecordsOf(IdAt(e)) = {r}
              /\ extracted.records[r].page = e[1]
              /\ extracted.records[r].position = e[3] - 1

\* C17: whatever malformed payloads the list holds, each well-formed page has its
\* records in the output: one for every item of the page that has no id or is the
\* first occurrence of its id.
C17_WellFormedPagesOutput ==
    extracted.done
    => \A n \in 1..Len(Pages) :
         WellFormed(Pages[n])
         => Cardinality({r \in 1..Len(extracted.records) : extracted.records[r].page = n})
            = Cardinality({e \in Entries : e[1] = n /\ (IdAt(e) = "" \/ First(e))})

\* C18: no record comes from a payload without the layout key, and a run over
\* such payloads only returns the empty list without raising.
C18_NoLayoutNoRecords ==
    extracted.done
    => /\ \A r \in 1..Len(extracted.records) : Pages[extracted.records[r].page].has_layout
       /\ (\A n \in 1..Len(Pages) : ~Pages[n].has_layout)
          => (extracted.records = <<>> /\ ~extracted.raised)

C18_Witness ==
    /\ extracted.done
    /\ Pages = <<NoLayoutPayload, NullPayload>>
    /\ extracted.records = <<>>

\* C19: the empty id is never in the seen-set, and every item without an id, or
\* with an empty one, has its own record.
C19_EmptyIdAlwaysExtracted ==
    extracted.done
    => /\ "" \notin extracted.seen
       /\ Cardinality(RecordsOf("")) = Cardinality({e \in Entries : IdAt(e) = ""})

\* C20: the records are in page order and, within a page, in position order.
C20_OrderedByPageAndPosition ==
    extracted.done
    => \A a, b \in 1..Len(extracted.records) :
         a < b => /\ extracted.records[a].page <= extracted.records[b].page
                  /\ extracted.records[a].page = extracted.records[b].page
                     => extracted.records[a].position <= extracted.records[b].position

\* the items of the product grids of a layout, in order
RECURSIVE GridItems(_)
GridItems(layout) ==
    IF layout = <<>> THEN <<>>
    ELSE (IF IsProductGrid(Head(layout)) THEN Head(layout).items ELSE <<>>)
         \o GridItems(Tail(layout))

\* the items of the product grids of the payloads handed to an extraction, in order
RECURSIVE InputItems(_)
InputItems(pages) ==
    IF pages = <<>> THEN <<>>
    ELSE (IF Head(pages).has_layout THEN GridItems(Head(pages).layout) ELSE <<>>)
         \o InputItems(Tail(pages))

\* x is v / 100
IsHundredthOf(x, v) == x.cents \in 0..99 /\ x.whole * 100 + x.cents = v

\* C21: in either extraction, the mrp and selling_price of the record of an item
\* are its mrp and discountedSellingPrice divided by 100, an absent or zero source
\* value gives 0, and nothing is raised.
C21_PricesAreHundredths ==
    extracted.done
    => LET items == InputItems(extracted.input)
       IN  /\ ~extracted.raised
           /\ Len(extracted.records) = Len(items)
           /\ \A r \in 1..Len(items) :
                /\ IsHundredthOf(extracted.records[r].mrp, Get(items[r].mrp, 0))
                /\ IsHundredthOf(extracted.records[r].selling_price,
                                 Get(items[r].discountedSellingPrice, 0))
                /\ ~Has(items[r].mrp) => extracted.records[r].mrp = Zero
                /\ ~Has(items[r].discountedSellingPrice)
                   => extracted.records[r].selling_price = Zero

C21_Witness ==
    /\ extracted.done
    /\ Len(extracted.records) = 1
    /\ InputItems(extracted.input)[1].mrp = Some(12345)
    /\ InputItems(extracted.input)[1].discountedSellingPrice = Absent
    /\ extracted.records[1].mrp = [whole |-> 123, cents |-> 45]
    /\ extracted.records[1].selling_price = Zero

\* the item has a campaignType key, a campaignId key or a non-empty
\* pricingCampaigns list
HasCampaign(item) ==
    \/ item.campaignType # Absent
    \/ item.campaignId # Absent
    \/ (item.pricingCampaigns # Absent /\ item.pricingCampaigns[1] # <<>>)

\* C22: in either extraction, is_sponsored of a record is true exactly when its
\* item has a campaignType key, a campaignId key or a non-empty pricingCampaigns
\* list.
C22_SponsoredIffCampaign ==
    extracted.done
    => LET items == InputItems(extracted.input)
       IN  /\ Len(extracted.records) = Len(items)
           /\ \A r \in 1..Len(items) :
                extracted.records[r].is_sponsored <=> HasCampaign(items[r])
\* a number with two decimals, in hundredths
Hundredths(x) == x.whole * 100 + x.cents

Abs(x) == IF x < 0 THEN -x ELSE x

\* the rows of a frame for one keyword and region
RowsFor(output, k, g) == SelectSeq(output.rows, LAMBDA row : row.keyword = k /\ row.region = g)

\* the records of a collection for one keyword and region
RecordsFor(input, k, g) ==
    SelectSeq(input, LAMBDA r : r.search_keyword = k /\ r.region = g)

RECURSIVE SumColumn(_, _)
SumColumn(rows, name) ==
    IF rows = <<>> THEN 0 ELSE Hundredths(Head(rows)[name]) + SumColumn(Tail(rows), name)

RECURSIVE SumCounts(_)
SumCounts(rows) ==
    IF rows = <<>> THEN 0 ELSE Head(rows).product_count + SumCounts(Tail(rows))

\* the sum of a column of the rows is 100, within half a hundredth for each row
SumsToHundred(rows, name) == 2 * Abs(SumColumn(rows, name) - 10000) <= Len(rows)

\* C23: for every keyword and region with a record, the sov_percentage values of
\* its rows sum to 100, within half a hundredth for each brand.
C23_SovSumsToHundred ==
    \A c \in 1..Len(calls) : \A k \in Keywords, g \in Regions :
        RecordsFor(calls[c].input, k, g) # <<>>
        => /\ ~calls[c].output.none
           /\ RowsFor(calls[c].output, k, g) # <<>>
           /\ SumsToHundred(RowsFor(calls[c].output, k, g), "sov_percentage")

\* three brands with one record each: 33.33 + 33.33 + 33.33
C23_Witness ==
    /\ calls # <<>>
    /\ Len(calls[1].output.rows) = 3
    /\ SumColumn(calls[1].output.rows, "sov_percentage") = 9999

\* C24: for every keyword and region with a record, the weighted_sov values of its
\* rows sum to 100 (within half a hundredth for each brand) when a record has a
\* position >= 0, and are all 0 when none has; of two brands with one record each,
\* at positions p and q, the first has the share (1/(p+1)) / (1/(p+1) + 1/(q+1)).
C24_WeightedSumsToHundred ==
    \A c \in 1..Len(calls) : \A k \in Keywords, g \in Regions :
        LET records == RecordsFor(calls[c].input, k, g)
            rows == RowsFor(calls[c].output, k, g)
        IN  records # <<>>
            => IF \E n \in 1..Len(records) : records[n].position >= 0
               THEN /\ rows # <<>>
                    /\ SumsToHundred(rows, "weighted_sov")
                    /\ \A p, q \in 0..MaxPosition :
                         (/\ Len(records) = 2
                          /\ records[1].brand # records[2].brand
                          /\ records[1].position = p
                          /\ records[2].position = q)
                         => \E n \in 1..2 :
                              /\ rows[n].brand = records[1].brand
                              /\ Hundredths(rows[n].weighted_sov)
                                     = RoundHalfEven((q + 1) * 10000, p + q + 2)
               ELSE rows # <<>> /\ \A n \in 1..Len(rows) : rows[n].weighted_sov = Zero

\* one keyword and region whose records have no valid position, another whose
\* brands share the weight 1 to 1/(MaxPosition+1)
C24_Witness ==
    /\ calls # <<>>
    /\ \E k \in Keywords, g \in Regions :
         /\ RecordsFor(calls[1].input, k, g) # <<>>
         /\ \A n \in 1..Len(RowsFor(calls[1].output, k, g)) :
              RowsFor(calls[1].output, k, g)[n].weighted_sov = Zero
    /\ \E k \in Keywords, g \in Regions :
         /\ Len(RowsFor(calls[1].output, k, g)) = 2
         /\ RowsFor(calls[1].output, k, g)[1].weighted_sov
                = Percent(Weight(0), Weight(0) + Weight(MaxPosition))
         /\ RowsFor(calls[1].output, k, g)[1].weighted_sov # Zero
         /\ SumColumn(RowsFor(calls[1].output, k, g), "weighted_sov") = 10000

\* C25: the frame has one row for each keyword, region and brand with a record and
\* no other row; the row's product_count is the number of those records, and the
\* product_counts of a keyword and region sum to the number of its records.
C25_OneRowPerTriple ==
    \A c \in 1..Len(calls) :
        ~calls[c].output.none
        => \A k \in Keywords, g \in Regions :
             LET records == RecordsFor(calls[c].input, k, g)
                 rows == RowsFor(calls[c].output, k, g)
             IN  /\ \A b \in Brands :
                      LET of_brand == SelectSeq(rows, LAMBDA row : row.brand = b)
                      IN  IF Count(records, b) > 0
                          THEN Len(of_brand) = 1 /\ of_brand[1].product_count = Count(records, b)
                          ELSE of_brand = <<>>
                 /\ SumCounts(rows) = Len(records)

\* two keywords and regions, one with two brands
C25_Witness ==
    /\ calls # <<>>
    /\ Len(calls[1].input) = 3
    /\ Len(calls[1].output.rows) = 3
    /\ RowsFor(calls[1].output, KeyA, "default") # <<>>
    /\ Len(RowsFor(calls[1].output, KeyAB, "north")) = 2
    /\ RowsFor(calls[1].output, KeyA, "north") = <<>>

\* C26: two calls on the same collection return the same frame, whatever was
\* aggregated before or in between.
C26_SameInputSameRows ==
    \A c, d \in 1..Len(calls) :
        calls[c].input = calls[d].input => calls[c].output = calls[d].output

\* the collection, another collection, the collection again
C26_Witness ==
    /\ Len(calls) = 3
    /\ calls[1].input = calls[3].input
    /\ calls[2].input # calls[1].input
    /\ calls[2].output.rows # <<>>
    /\ Len(calls[3].output.rows) = 2
\* the keyword searched or handled at this point of the run
RunKeyword == run.keywords[run.idx]

\* C27: when a run whose navigation succeeded returns, its results have an entry
\* for every keyword handed in.
C27_EveryKeywordHasEntry ==
    (run.pc = "returned" /\ run.site_loaded)
    => \A n \in 1..Len(run.keywords) : run.keywords[n] \in DOMAIN run.results.keywords

\* C28: when the search of a keyword has returned a non-empty page list, the next
\* step of the run records the keyword as success=True with products_found the
\* number of records extract_data returns for it.
C28_NonEmptySearchRecordsSuccess ==
    [][(run.pc = "result" /\ NonEmpty(run.response_data) /\ run'.pc # "result")
       => /\ RunKeyword \in DOMAIN run'.results.keywords
          /\ run'.results.keywords[RunKeyword]
                 = [success |-> TRUE, products_found |-> Len(extract_data(RunKeyword).records)]
      ]_vars

\* C29: after a failed navigation the run only closes and returns: no keyword is
\* searched, navigation is not tried again, the results say success=False with an
\* error and have no keyword entry.
C29_NavigationFailureIsTerminal ==
    (run.navigations > 0 /\ ~run.site_loaded)
    => /\ run.pc \in {"close", "returned"}
       /\ run.searched = 0
       /\ run.navigations = 1
       /\ ~run.results.success
       /\ run.results.error
       /\ run.results.has_keywords
       /\ DOMAIN run.results.keywords = {}

C29_Witness ==
    /\ run.pc = "returned"
    /\ run.browser
    /\ run.navigations = 1
    /\ ~run.site_loaded
    /\ Len(run.keywords) = 2
    /\ run.closed = 1

\* C30: a call that names a platform whose lower-case name is not registered leaves
\* the registry as it is and returns at once, with success=False and an error; a run
\* without a scraper never starts or closes a browser session and raises nothing.
C30_UnknownPlatformFails ==
    /\ [][(run.pc = "none" /\ run'.pc # "none" /\ Lower(run'.platform) \notin DOMAIN scrapers)
          => /\ scrapers' = scrapers
             /\ run'.pc = "returned"
             /\ run'.scraper = "None"
             /\ ~run'.results.success
             /\ run'.results.error
         ]_vars
    /\ [](run.scraper = "None" => (run.initialized = 0 /\ run.closed = 0 /\ ~run.raised))

\* Blinkit is asked for while only zepto is registered
C30_Witness ==
    /\ run.pc = "returned"
    /\ run.platform = <<"B", "l", "i", "n", "k", "i", "t">>
    /\ DOMAIN scrapers = {Zepto}
    /\ run.scraper = "None"
    /\ ~run.results.success

----------------------------------------------------------------------------
\* Searches of one run, and the ledger between them

\* C31: what a search returns and what satisfies its wait comes from responses
\* captured during that search: its wait succeeds, and its initial page is
\* collected, only after the keyword's version has moved past the version the
\* keyword had when the search began, and the list it returns holds no page that
\* was collected before the search began.
C31_SearchUsesOwnResponses ==
    /\ wait_ret = "true" => response_versions[keyword] > start_version
    /\ initial => response_versions[keyword] > start_version
    /\ ret.kind = "list" => start_len = 0

\* C32: a first-page wait with timeout = 5 checks the ledger at most 5 x 10 times.
C32_TenPollsPerSecond == pc = "poll" => polls + 1 <= FirstPageTimeout * 10

\* a step of the driver in which _wait_for_api_response tests line 158
WaitChecks ==
    \/ pc = "ui" /\ pc' \in {"poll", "scroll"}
    \/ pc = "poll" /\ polls + 1 < TotalPolls /\ (pc' = "scroll" \/ polls' = polls + 1)

C36_NoPageCollectedTwice ==
    \A k \in AllKeys : \A m, n \in 1..Len(api_responses[k]) :
        m # n => api_responses[k][m] # api_responses[k][n]

----------------------------------------------------------------------------
\* retry

\* C33: a call of a function wrapped by retry(max_retries = n) invokes the function
\* at most n + 1 times; it returns the value of the first invocation that raises no
\* listed exception, every invocation before it having raised a listed one; an
\* exception that is not listed leaves the wrapper from the invocation that raised
\* it; and when n invocations raised listed exceptions, what the invocation n + 1
\* raises leaves the wrapper. After the call has ended the function is not invoked
\* again.
C33_AtMostRetriesPlusOne ==
    /\ [](LET o == wrapper.outcomes
          IN  /\ Len(o) <= wrapper.max_retries + 1
              /\ \A j \in 1..Len(o) :
                   /\ j < Len(o) => o[j] = "listed"
                   /\ o[j] = "value" => (wrapper.pc = "returned" /\ wrapper.result = j)
                   /\ o[j] = "other" => (wrapper.pc = "raised" /\ wrapper.result = j)
                   /\ (o[j] = "listed" /\ j = wrapper.max_retries + 1)
                        => (wrapper.pc = "raised" /\ wrapper.result = j)
              /\ wrapper.pc = "returned" => o[wrapper.result] = "value"
              /\ wrapper.pc = "raised" => o[wrapper.result] # "value")
    /\ [][wrapper.pc \in {"returned", "raised"} => wrapper' = wrapper]_vars

\* retry(max_retries = 2): three invocations raise a listed exception and the third
\* one leaves the wrapper, after sleeps of 2 and 4 seconds
C33_Witness ==
    /\ wrapper.max_retries = 2
    /\ wrapper.outcomes = <<"listed", "listed", "listed">>
    /\ wrapper.pc = "raised"
    /\ wrapper.result = 3
    /\ wrapper.mdelay = 8

----------------------------------------------------------------------------
\* extract_data: page and position of a record

\* the records of the run that carry this page, position and product id
RecordsAt(page, position, id) ==
    {r \in 1..Len(extracted.records) :
        /\ extracted.records[r].page = page
        /\ extracted.records[r].position = position
        /\ extracted.records[r].product_id = id}

\* the product grids of a payload that hold an item with this id at this 0-based index
GridsWith(p, position, id) ==
    {w \in 1..Len(p.layout) :
        /\ IsProductGrid(p.layout[w])
        /\ position + 1 \in 1..Len(p.layout[w].items)
        /\ ProductId(p.layout[w].items[position + 1]) = id}

\* C34: the page of a record is the 1-based index, in the input list, of the payload
\* its item is in, payloads that were skipped counted, and its position is the
\* 0-based index the item has in its item list; so positions start at 0 again on
\* every page, and an item that is kept has the index of the input also when
\* duplicates before it were dropped.
C34_PageAndPositionAreInputIndexes ==
    extracted.done
    => /\ \A r \in 1..Len(extracted.records) :
            LET rec == extracted.records[r]
            IN  /\ rec.page \in 1..Len(extracted.input)
                /\ extracted.input[rec.page].has_layout
                /\ Cardinality(RecordsAt(rec.page, rec.position, rec.product_id))
                   <= Cardinality(GridsWith(extracted.input[rec.page], rec.position,
                                            rec.product_id))
       /\ \A e \in Entries :
            First(e) => RecordsAt(e[1], e[3] - 1, IdAt(e)) # {}

\* a skipped payload, then a page whose grid holds P1, P1 again and P2: the records
\* are P1 at page 2, position 0 and P2 at page 2, position 2
C34_Witness ==
    /\ extracted.done
    /\ Len(extracted.input) = 2
    /\ ~extracted.input[1].has_layout
    /\ Len(extracted.records) = 2
    /\ extracted.records[1].product_id = "P1"
    /\ extracted.records[1].page = 2
    /\ extracted.records[1].position = 0
    /\ extracted.records[2].product_id = "P2"
    /\ extracted.records[2].page = 2
    /\ extracted.records[2].position = 2

----------------------------------------------------------------------------
\* scrape_platform: close(); extract_data and process_extracted_data together

\* C37: close() runs at most once and only as the last step before the return; a
\* call that has entered the scraper context returns with close() run exactly once,
\* whether navigation failed, the keywords were all processed or an exception was
\* raised while one was processed; and after initialize() failed no search is made.
C37_ClosedOnceOnEveryPath ==
    /\ run.closed <= 1
    /\ run.pc # "returned" => run.closed = 0
    /\ (run.pc = "returned" /\ run.initialized = 1) => run.closed = 1
    /\ (run.initialized = 1 /\ ~run.browser) => run.searched = 0

\* the extract_data call of the second keyword raised after one keyword was
\* processed: close() has run once and the call has returned
C37_Witness ==
    /\ run.pc = "returned"
    /\ run.initialized = 1
    /\ run.browser
    /\ run.site_loaded
    /\ run.searched = 2
    /\ run.raised
    /\ run.closed = 1

\* C38: the records of extract_data have every column that process_extracted_data
\* reads, and aggregating a non-empty list of them raises nothing and returns a frame.
C38_ExtractedRecordsAggregate ==
    /\ (extracted.done /\ extracted.records # <<>>) => ColumnsRead \subseteq ProductDataKeys
    /\ \A n \in 1..Len(calls) :
         calls[n].input # <<>> => (~calls[n].output.raised /\ ~calls[n].output.none)
====
